---- MODULE Spec2Model ----
(***************************************************************************)
(* State-machine model of the system_tray crate (src/src/lib.rs): one      *)
(* native Qt application handle, the SystemTray values (clones) sharing    *)
(* the two Arc<Mutex<..>> cells, the caller threads and the background     *)
(* threads spawned by start().                                             *)
(*                                                                         *)
(* The native toolkit (module bind, generated from lib/src/lib.hpp) is not *)
(* part of the Rust sources; its state and entry points are modelled from  *)
(* the collaborator surface described in the specification.  Panics are    *)
(* modelled with the default unwinding strategy.                           *)
(***************************************************************************)
EXTENDS Integers, Sequences, FiniteSets, TLC

\* ------------------------------------------------------------------ bounds
MaxLen == 2          \* longest string argument (organization, app id, text, id, format)
MaxSpawn == 2        \* background threads spawned in one behaviour
MaxClones == 1       \* SystemTray::clone calls in one behaviour
MaxDiscr == 12       \* largest discriminant the native poll primitive returns
MaxMenu == 1         \* menu entries added to one session

\* ------------------------------------------------------------ option values
None == <<>>
Some(x) == <<x>>

\* ------------------------------------------------------------------ strings
\* A string is a sequence of bytes; byte 0 is NUL.
Bytes == {0, 1}
RECURSIVE SeqsUpTo(_)
SeqsUpTo(n) ==
  IF n = 0 THEN {<<>>}
  ELSE LET S == SeqsUpTo(n - 1)
       IN  S \cup {Append(s, b) : s \in {x \in S : Len(x) = n - 1}, b \in Bytes}
Strings == SeqsUpTo(MaxLen)
\* the inputs of the concurrent specification: one NUL-free string, one with a NUL
SmallStrings == {<<1>>, <<0>>}

HasNul(s) == \E i \in 1..Len(s) : s[i] = 0

\* variant: the terminator is appended without looking for a NUL byte
CStringNewUnchecked(s) == [ok |-> TRUE, bytes |-> Append(s, 0)]

\* CString::new(s): Err(NulError) when s holds a NUL byte, else the bytes
\* followed by the terminator.
CStringNew(s) ==
  IF HasNul(s) THEN [ok |-> FALSE, bytes |-> <<>>]
  ELSE [ok |-> TRUE, bytes |-> Append(s, 0)]

\* What the native side reads through a const char*: the bytes before the
\* first terminator.
RECURSIVE CStr(_)
CStr(bytes) ==
  IF bytes = <<>> \/ Head(bytes) = 0 THEN <<>>
  ELSE <<Head(bytes)>> \o CStr(Tail(bytes))

\* A Rust String is modelled by its UTF-8 bytes.  The bounds of the second byte
\* of a sequence that starts with byte b, and the length b announces (0: b cannot
\* start a sequence).
SecondLo(b) == IF b = 224 THEN 160 ELSE IF b = 240 THEN 144 ELSE 128
SecondHi(b) == IF b = 237 THEN 159 ELSE IF b = 244 THEN 143 ELSE 191
Utf8Width(b) ==
  IF b < 128 THEN 1
  ELSE IF b \in 194..223 THEN 2
  ELSE IF b \in 224..239 THEN 3
  ELSE IF b \in 240..244 THEN 4
  ELSE 0

\* how many bytes at the head of s belong to one (possibly truncated) sequence
RECURSIVE Utf8Prefix(_, _)
Utf8Prefix(s, k) ==
  IF k >= Utf8Width(s[1]) \/ k >= Len(s) THEN k
  ELSE IF k = 1 /\ s[2] \in SecondLo(s[1])..SecondHi(s[1]) THEN Utf8Prefix(s, 2)
  ELSE IF k > 1 /\ s[k + 1] \in 128..191 THEN Utf8Prefix(s, k + 1)
  ELSE k

ReplacementCharacter == <<239, 191, 189>>   \* U+FFFD

\* variant: every byte outside ASCII is replaced
RECURSIVE ToStringLossyAscii(_)
ToStringLossyAscii(bytes) ==
  IF bytes = <<>> THEN <<>>
  ELSE (IF Head(bytes) < 128 THEN <<Head(bytes)>> ELSE ReplacementCharacter)
         \o ToStringLossyAscii(Tail(bytes))

\* CStr::to_string_lossy().into_owned(): valid sequences are kept, every maximal
\* invalid part becomes U+FFFD
RECURSIVE ToStringLossy(_)
ToStringLossy(bytes) ==
  IF bytes = <<>> THEN <<>>
  ELSE LET w == Utf8Width(Head(bytes))
           k == IF w = 0 THEN 1 ELSE Utf8Prefix(bytes, 1)
       IN (IF k = w THEN SubSeq(bytes, 1, k) ELSE ReplacementCharacter)
            \o ToStringLossy(SubSeq(bytes, k + 1, Len(bytes)))

\* ---------------------------------------------------------- event encoding
AppEventType_None == 0
AppEventType_TrayClicked == 1
AppEventType_TrayDoubleClicked == 2
AppEventType_MenuItemClicked == 3
KnownTypes == {AppEventType_None, AppEventType_TrayClicked,
               AppEventType_TrayDoubleClicked, AppEventType_MenuItemClicked}
Discriminants == 0..MaxDiscr
NoEvent == [type |-> AppEventType_None, menu_id_str |-> None]

\* format!("{}", n) of an unsigned integer: its decimal digits
RECURSIVE FormatDec(_)
FormatDec(n) ==
  IF n < 10 THEN <<n>> ELSE Append(FormatDec(n \div 10), n % 10)
RECURSIVE ParseDec(_)
ParseDec(ds) ==
  IF ds = <<>> THEN 0 ELSE 10 * ParseDec(SubSeq(ds, 1, Len(ds) - 1)) + ds[Len(ds)]

\* ------------------------------------------------------------------ threads
Threads == {"t1", "t2"}      \* caller threads
Loops == 1..MaxSpawn         \* background threads, in spawn order

VARIABLES
  handle,      \* the pointer in the handle cell: "unset" before new(), then create_qt_app's result
  owns,        \* owns[t]: caller thread t holds a SystemTray value (a clone of the session)
  nclones,     \* clone() calls so far
  hmutex,      \* holder of the handle mutex (Option of a caller thread)
  imutex,      \* holder of the join-slot mutex
  instance,    \* the join slot: Option<JoinHandle>, a background thread's number
  op,          \* op[t]: the public operation thread t is executing
  pc,          \* pc[t]: its position in it
  unwinding,   \* unwinding[t]: t is unwinding a panic (dropping its session value)
  nulArg,      \* nulArg[t]: a string argument of t's operation holds a NUL byte
  jh,          \* jh[t]: start()'s local join_handle
  taken,       \* taken[t]: stop()'s join_handle taken from the slot
  calls,       \* calls[t]: the native entry points t has called in its operation
  ret,         \* the last value returned by new, menu, icon or poll_event (or their panic)
  lpc,         \* lpc[l]: position of background thread l
  nspawned,    \* background threads spawned so far
  joined,      \* joined[l]: how many times thread l has been joined
  exitCode,    \* exitCode[l]: run_qt_app's result in thread l, until it is joined
  quitPending, \* native: a quit request not yet honoured by a loop
  pendingEv,   \* native: the one-slot pending event
  payloads,    \* native heap: menu_id_str strings allocated and not yet released
  nOrg, nApp,  \* native: organization name, application id
  nMenus,      \* native: menu entries (text, id)
  nIcon,       \* native: icon set from data
  menuIds,     \* history: the menu.id strings that menu() has handed to the native side
  cleanups,    \* native: cleanup_qt_app calls on the handle
  crashed      \* the process died of a native call on a released handle

vars == <<handle, owns, nclones, hmutex, imutex, instance, op, pc, unwinding, nulArg,
          jh, taken, calls, ret, lpc, nspawned, joined, exitCode,
          quitPending, pendingEv, payloads, nOrg, nApp, nMenus, nIcon, menuIds,
          cleanups, crashed>>

sessionVars == <<handle, owns, nclones>>
lockVars == <<hmutex, imutex>>
loopVars == <<lpc, nspawned, joined, exitCode>>
configVars == <<nOrg, nApp, nMenus, nIcon, menuIds>>
nativeVars == <<quitPending, pendingEv, payloads, configVars, cleanups, crashed>>

\* Results of the public operations.
Ok(what, data) == [tag |-> "Ok", what |-> what, data |-> data]
Err(what, data) == [tag |-> "Err", what |-> what, data |-> data]
\* CString::new(..).map_err(Error::Ffi).unwrap() on an Err
Panic(what) == [tag |-> "Panic", what |-> what, data |-> <<>>]

\* some string of the argument tuple a holds a NUL byte
AnyNul(a) == \E i \in 1..Len(a) : HasNul(a[i])

NoRet == [op |-> "none", nul |-> FALSE, val |-> Ok("none", <<>>), calls |-> {},
          raw |-> NoEvent]

Init ==
  /\ handle = "unset"
  /\ owns = [t \in Threads |-> FALSE]
  /\ nclones = 0
  /\ hmutex = None
  /\ imutex = None
  /\ instance = None
  /\ op = [t \in Threads |-> "none"]
  /\ pc = [t \in Threads |-> "idle"]
  /\ unwinding = [t \in Threads |-> FALSE]
  /\ nulArg = [t \in Threads |-> FALSE]
  /\ jh = [t \in Threads |-> None]
  /\ taken = [t \in Threads |-> None]
  /\ calls = [t \in Threads |-> {}]
  /\ ret = NoRet
  /\ lpc = [l \in Loops |-> "unborn"]
  /\ nspawned = 0
  /\ joined = [l \in Loops |-> 0]
  /\ exitCode = [l \in Loops |-> None]
  /\ quitPending = FALSE
  /\ pendingEv = NoEvent
  /\ payloads = 0
  /\ nOrg = None
  /\ nApp = None
  /\ nMenus = {}
  /\ nIcon = None
  /\ menuIds = {}
  /\ cleanups = 0
  /\ crashed = FALSE

\* ------------------------------------------------------------ native side
\* A native call on a handle that cleanup_qt_app has released is undefined
\* behaviour: the process may die of it or go on.
UseHandle == crashed' \in (IF cleanups > 0 THEN BOOLEAN ELSE {FALSE})

Running == {l \in Loops : lpc[l] = "running"}

\* The operation of thread t is over: start() and stop() return (), a drop nothing.
Finish(t) ==
  /\ op' = [op EXCEPT ![t] = "none"]
  /\ pc' = [pc EXCEPT ![t] = "idle"]
  /\ nulArg' = [nulArg EXCEPT ![t] = FALSE]
  /\ calls' = [calls EXCEPT ![t] = {}]
  /\ UNCHANGED <<unwinding, ret>>

\* The operation of thread t returns value v (or panics with it), having made the
\* native calls cs; raw is the native event a poll decoded.
Return(t, v, cs, raw) ==
  /\ ret' = [op |-> op[t], nul |-> nulArg[t], val |-> v, calls |-> cs, raw |-> raw]
  /\ op' = [op EXCEPT ![t] = "none"]
  /\ pc' = [pc EXCEPT ![t] = "idle"]
  /\ nulArg' = [nulArg EXCEPT ![t] = FALSE]
  /\ calls' = [calls EXCEPT ![t] = {}]
  /\ unwinding' = [unwinding EXCEPT ![t] = FALSE]

\* Thread t begins operation o with string arguments a, at position p.
Begin(t, o, a, p) ==
  /\ op' = [op EXCEPT ![t] = o]
  /\ pc' = [pc EXCEPT ![t] = p]
  /\ nulArg' = [nulArg EXCEPT ![t] = AnyNul(a)]

\* thread t of the live process is at position p
At(t, p) == ~crashed /\ pc[t] = p
Idle(t) == At(t, "idle")

\* ------------------------------------------------- construction, configuration
\* SystemTray::new(organization, app_id)
NewCall(t, organization, app_id) ==
  /\ Idle(t) /\ ~owns[t] /\ handle = "unset"
  /\ LET c_org == CStringNew(organization)
         c_id == CStringNew(app_id)
     IN IF ~c_org.ok \/ ~c_id.ok
        THEN /\ ret' = [op |-> "new", nul |-> AnyNul(<<organization, app_id>>),
                        val |-> Panic("Ffi(NulError)"), calls |-> {}, raw |-> NoEvent]
             /\ UNCHANGED <<handle, owns, nOrg, nApp, hmutex, instance>>
        ELSE /\ handle' = "QtApp"
             /\ nOrg' = Some(CStr(c_org.bytes))
             /\ nApp' = Some(CStr(c_id.bytes))
             /\ hmutex' = None
             /\ instance' = None
             /\ owns' = [owns EXCEPT ![t] = TRUE]
             /\ ret' = [op |-> "new", nul |-> AnyNul(<<organization, app_id>>),
                        val |-> Ok("SystemTray", <<>>),
                        calls |-> {"create_qt_app", "set_organization_name",
                                   "set_app_id", "init_tray"},
                        raw |-> NoEvent]
  /\ UNCHANGED <<nclones, imutex, op, pc, unwinding, nulArg, jh, taken, calls, loopVars,
                 quitPending, pendingEv, payloads, nMenus, nIcon, menuIds, cleanups,
                 crashed>>

\* #[derive(Clone)]: thread t hands a clone of its value to thread u
CloneCall(t, u) ==
  /\ Idle(t) /\ owns[t] /\ Idle(u) /\ ~owns[u]
  /\ nclones < MaxClones
  /\ owns' = [owns EXCEPT ![u] = TRUE]
  /\ nclones' = nclones + 1
  /\ UNCHANGED <<handle, lockVars, instance, op, pc, unwinding, nulArg, jh, taken, calls,
                 ret, loopVars, nativeVars>>

\* A panic in menu()/icon(), which own self: unwinding drops the session value.
Unwind(t, o, a) ==
  /\ Begin(t, o, a, "stop_lock")
  /\ unwinding' = [unwinding EXCEPT ![t] = TRUE]
  /\ calls' = [calls EXCEPT ![t] = {}]
  /\ UNCHANGED <<sessionVars, lockVars, instance, jh, taken, ret, loopVars, nativeVars>>

\* SystemTray::menu(self, menu): validation, then the native call under the handle lock
MenuCall(t, text, id) ==
  /\ Idle(t) /\ owns[t]
  /\ LET c_text == CStringNew(text)
         c_id == CStringNew(id)
     IN IF ~c_text.ok \/ ~c_id.ok
        THEN Unwind(t, "menu", <<text, id>>)
        ELSE /\ hmutex = None
             /\ Cardinality(nMenus \cup {[text |-> text, id |-> id]}) <= MaxMenu
             /\ hmutex' = Some(t)
             /\ Begin(t, "menu", <<text, id>>, "menu_native")
             /\ calls' = [calls EXCEPT ![t] = {"add_tray_menu_item"}]
             /\ nMenus' = nMenus \cup {[text |-> CStr(c_text.bytes), id |-> CStr(c_id.bytes)]}
             /\ menuIds' = menuIds \cup {id}
             /\ UseHandle
             /\ UNCHANGED <<sessionVars, imutex, instance, unwinding, jh, taken, ret,
                            loopVars, quitPending, pendingEv, payloads, nOrg, nApp, nIcon,
                            cleanups>>

\* add_tray_menu_item returns; the guard is dropped; self is returned
MenuNative(t) ==
  /\ At(t, "menu_native")
  /\ hmutex' = None
  /\ Return(t, Ok("SystemTray", <<>>), calls[t], NoEvent)
  /\ UNCHANGED <<sessionVars, imutex, instance, jh, taken, loopVars, nativeVars>>

\* SystemTray::icon(self, icon_data, icon_format)
IconCall(t, icon_data, icon_format) ==
  /\ Idle(t) /\ owns[t]
  /\ LET c_format == CStringNew(icon_format)
     IN IF ~c_format.ok
        THEN Unwind(t, "icon", <<icon_format>>)
        ELSE /\ hmutex = None
             /\ hmutex' = Some(t)
             /\ Begin(t, "icon", <<icon_format>>, "icon_native")
             /\ calls' = [calls EXCEPT ![t] = {"set_app_icon_from_data"}]
             /\ nIcon' = Some([data |-> icon_data, len |-> Len(icon_data),
                               format |-> CStr(c_format.bytes)])
             /\ UseHandle
             /\ UNCHANGED <<sessionVars, imutex, instance, unwinding, jh, taken, ret,
                            loopVars, quitPending, pendingEv, payloads, nOrg, nApp, nMenus, menuIds,
                            cleanups>>

IconNative(t) ==
  /\ At(t, "icon_native")
  /\ hmutex' = None
  /\ Return(t, Ok("SystemTray", <<>>), calls[t], NoEvent)
  /\ UNCHANGED <<sessionVars, imutex, instance, jh, taken, loopVars, nativeVars>>

\* ------------------------------------------------------------------- start
\* start() entered; the model spawns at most MaxSpawn background threads
StartCall(t) ==
  /\ Idle(t) /\ owns[t]
  /\ nspawned + Cardinality({u \in Threads : pc[u] = "start_lock"}) < MaxSpawn
  /\ Begin(t, "start", <<>>, "start_lock")
  /\ UNCHANGED <<sessionVars, lockVars, instance, unwinding, jh, taken, calls, ret,
                 loopVars, nativeVars>>

\* variant: handle_guard is bound in the function body and lives to the end of
\* start()
StartSpawnKeepsGuard(t) ==
  /\ At(t, "start_lock")
  /\ hmutex = None
  /\ hmutex' = Some(t)
  /\ LET l == nspawned + 1
     IN /\ nspawned' = l
        /\ lpc' = [lpc EXCEPT ![l] = "spawned"]
        /\ jh' = [jh EXCEPT ![t] = Some(l)]
  /\ pc' = [pc EXCEPT ![t] = "start_store"]
  /\ UNCHANGED <<sessionVars, imutex, instance, op, unwinding, nulArg, taken, calls, ret,
                 joined, exitCode, nativeVars>>

\* let handle = { let handle_guard = self.handle.lock().unwrap(); *handle_guard };
\* the guard is dropped at the end of the block; then
\* std::thread::spawn(move || { run_qt_app(handle.as_ptr(), 0, argv) ... })
StartSpawn(t) ==
  /\ At(t, "start_lock")
  /\ hmutex = None
  /\ LET l == nspawned + 1
     IN /\ nspawned' = l
        /\ lpc' = [lpc EXCEPT ![l] = "spawned"]
        /\ jh' = [jh EXCEPT ![t] = Some(l)]
  /\ pc' = [pc EXCEPT ![t] = "start_store"]
  /\ UNCHANGED <<sessionVars, lockVars, instance, op, unwinding, nulArg, taken, calls, ret,
                 joined, exitCode, nativeVars>>

\* variant: a failed spawn is swallowed and start() returns normally
StartSpawnFailsSilently(t) ==
  /\ At(t, "start_lock")
  /\ hmutex = None
  /\ Finish(t)
  /\ UNCHANGED <<sessionVars, lockVars, instance, jh, taken, loopVars, nativeVars>>

\* std::thread::spawn panics when the OS cannot create the thread (Builder::spawn
\* would return the io::Error).  The handle guard is already dropped, start()
\* borrows self: the panic unwinds into the caller with nothing spawned or stored.
StartSpawnFails(t) ==
  /\ At(t, "start_lock")
  /\ hmutex = None
  /\ Return(t, Panic("thread::spawn"), calls[t], NoEvent)
  /\ UNCHANGED <<sessionVars, lockVars, instance, jh, taken, loopVars, nativeVars>>

\* *self.instance.lock().unwrap() = Some(join_handle);
\* the slot's previous JoinHandle, if any, is dropped: that thread is detached
StartStore(t) ==
  /\ At(t, "start_store")
  /\ imutex = None
  /\ instance' = jh[t]
  /\ jh' = [jh EXCEPT ![t] = None]
  /\ Finish(t)
  /\ UNCHANGED <<sessionVars, lockVars, taken, loopVars, nativeVars>>

\* -------------------------------------------------------------------- stop
StopCall(t) ==
  /\ Idle(t) /\ owns[t]
  /\ Begin(t, "stop", <<>>, "stop_lock")
  /\ UNCHANGED <<sessionVars, lockVars, instance, unwinding, jh, taken, calls, ret,
                 loopVars, nativeVars>>

\* let handle = self.handle.lock().unwrap(); request_quit_qt_app_safe is entered
StopLock(t) ==
  /\ At(t, "stop_lock")
  /\ hmutex = None
  /\ hmutex' = Some(t)
  /\ pc' = [pc EXCEPT ![t] = "stop_quit"]
  /\ calls' = [calls EXCEPT ![t] = @ \cup {"request_quit_qt_app_safe"}]
  /\ UNCHANGED <<sessionVars, imutex, instance, op, unwinding, nulArg, jh, taken, ret,
                 loopVars, nativeVars>>

\* native: request quit(handle), an asynchronous signal to the running loop.
\* With no loop running the request either stays pending or is lost.
RequestQuit ==
  quitPending' \in (IF Running # {} THEN {TRUE} ELSE {quitPending, TRUE})

\* variant: the handle guard outlives the block and is still held at the join
StopQuitKeepsGuard(t) ==
  /\ At(t, "stop_quit")
  /\ RequestQuit
  /\ UseHandle
  /\ pc' = [pc EXCEPT ![t] = "stop_take"]
  /\ UNCHANGED <<sessionVars, lockVars, instance, op, unwinding, nulArg, jh, taken, calls,
                 ret, loopVars, pendingEv, payloads, configVars, cleanups>>

\* request_quit_qt_app_safe returns; the guard is dropped at the end of the block
StopQuit(t) ==
  /\ At(t, "stop_quit")
  /\ RequestQuit
  /\ UseHandle
  /\ hmutex' = None
  /\ pc' = [pc EXCEPT ![t] = "stop_take"]
  /\ UNCHANGED <<sessionVars, imutex, instance, op, unwinding, nulArg, jh, taken, calls,
                 ret, loopVars, pendingEv, payloads, configVars, cleanups>>

\* stop() returns to its caller, or to Drop::drop, which goes on to the cleanup
StopEnd(t) ==
  IF op[t] = "stop"
  THEN Finish(t)
  ELSE /\ pc' = [pc EXCEPT ![t] = "drop_lock"]
       /\ UNCHANGED <<op, unwinding, nulArg, calls, ret>>

\* variant: the slot is read, not taken
StopTakeKeepsSlot(t) ==
  /\ At(t, "stop_take")
  /\ imutex = None
  /\ instance' = instance
  /\ IF instance = None
     THEN /\ StopEnd(t)
          /\ UNCHANGED <<imutex, taken>>
     ELSE /\ imutex' = Some(t)
          /\ taken' = [taken EXCEPT ![t] = instance]
          /\ pc' = [pc EXCEPT ![t] = "stop_join"]
          /\ UNCHANGED <<op, unwinding, nulArg, calls, ret>>
  /\ UNCHANGED <<sessionVars, hmutex, jh, loopVars, nativeVars>>

\* if let Some(join_handle) = self.instance.lock().unwrap().take(): the guard is a
\* temporary of the scrutinee and lives to the end of the if-let, the join included.
\* With an empty slot the guard is dropped at once and stop() is over.
StopTake(t) ==
  /\ At(t, "stop_take")
  /\ imutex = None
  /\ instance' = None
  /\ IF instance = None
     THEN /\ StopEnd(t)
          /\ UNCHANGED <<imutex, taken>>
     ELSE /\ imutex' = Some(t)
          /\ taken' = [taken EXCEPT ![t] = instance]
          /\ pc' = [pc EXCEPT ![t] = "stop_join"]
          /\ UNCHANGED <<op, unwinding, nulArg, calls, ret>>
  /\ UNCHANGED <<sessionVars, hmutex, jh, loopVars, nativeVars>>

\* variant: a non-zero exit code of the joined thread is surfaced as a panic of
\* stop()
StopJoinSurfacesExitCode(t) ==
  /\ At(t, "stop_join")
  /\ lpc[taken[t][1]] = "exited"
  /\ joined' = [joined EXCEPT ![taken[t][1]] = @ + 1]
  /\ exitCode' = [exitCode EXCEPT ![taken[t][1]] = None]
  /\ imutex' = None
  /\ taken' = [taken EXCEPT ![t] = None]
  /\ IF exitCode[taken[t][1]] = Some(0)
     THEN StopEnd(t)
     ELSE Return(t, Panic("exit code"), calls[t], NoEvent)
  /\ UNCHANGED <<sessionVars, hmutex, instance, jh, lpc, nspawned, nativeVars>>

\* join_handle.join() returns once the background thread has exited; the if-let
\* ends and the join-slot guard is dropped
StopJoin(t) ==
  /\ At(t, "stop_join")
  /\ lpc[taken[t][1]] = "exited"
  /\ joined' = [joined EXCEPT ![taken[t][1]] = @ + 1]
  /\ exitCode' = [exitCode EXCEPT ![taken[t][1]] = None]
  /\ imutex' = None
  /\ taken' = [taken EXCEPT ![t] = None]
  /\ StopEnd(t)
  /\ UNCHANGED <<sessionVars, hmutex, instance, jh, lpc, nspawned, nativeVars>>

\* -------------------------------------------------------------------- drop
\* Drop::drop(&mut self) of thread t's value: self.stop() first
DropCall(t) ==
  /\ Idle(t) /\ owns[t]
  /\ Begin(t, "drop", <<>>, "stop_lock")
  /\ UNCHANGED <<sessionVars, lockVars, instance, unwinding, jh, taken, calls, ret,
                 loopVars, nativeVars>>

\* let handle = self.handle.lock().unwrap(); if !handle.as_ptr().is_null() {..}
DropLock(t) ==
  /\ At(t, "drop_lock")
  /\ hmutex = None
  /\ hmutex' = Some(t)
  /\ IF handle # "NullPtr"
     THEN /\ pc' = [pc EXCEPT ![t] = "drop_cleanup"]
          /\ calls' = [calls EXCEPT ![t] = @ \cup {"cleanup_qt_app"}]
     ELSE /\ pc' = [pc EXCEPT ![t] = "drop_end"]
          /\ UNCHANGED calls
  /\ UNCHANGED <<sessionVars, imutex, instance, op, unwinding, nulArg, jh, taken, ret,
                 loopVars, nativeVars>>

\* cleanup_qt_app returns (or was skipped); the guard is dropped; the value is gone.
\* Releasing the handle again, or under a running loop, is undefined behaviour.
DropCleanup(t) ==
  /\ ~crashed /\ pc[t] \in {"drop_cleanup", "drop_end"}
  /\ IF pc[t] = "drop_cleanup"
     THEN /\ cleanups' = cleanups + 1
          /\ crashed' \in (IF cleanups > 0 \/ Running # {} THEN BOOLEAN ELSE {FALSE})
     ELSE UNCHANGED <<cleanups, crashed>>
  /\ hmutex' = None
  /\ owns' = [owns EXCEPT ![t] = FALSE]
  /\ IF unwinding[t]
     THEN Return(t, Panic("Ffi(NulError)"), calls[t], NoEvent)
     ELSE Finish(t)
  /\ UNCHANGED <<handle, nclones, imutex, instance, jh, taken, loopVars, quitPending,
                 pendingEv, payloads, configVars>>

\* -------------------------------------------------------------- poll_event
PollCall(t) ==
  /\ Idle(t) /\ owns[t]
  /\ Begin(t, "poll_event", <<>>, "poll_lock")
  /\ UNCHANGED <<sessionVars, lockVars, instance, unwinding, jh, taken, calls, ret,
                 loopVars, nativeVars>>

\* variant: bind::poll_event is entered without the handle lock
PollLockNoGuard(t) ==
  /\ At(t, "poll_lock")
  /\ pc' = [pc EXCEPT ![t] = "poll_native"]
  /\ calls' = [calls EXCEPT ![t] = @ \cup {"poll_event"}]
  /\ UNCHANGED <<sessionVars, lockVars, instance, op, unwinding, nulArg, jh, taken, ret,
                 loopVars, nativeVars>>

\* let handle = self.handle.lock().unwrap(); bind::poll_event is entered
PollLock(t) ==
  /\ At(t, "poll_lock")
  /\ hmutex = None
  /\ hmutex' = Some(t)
  /\ pc' = [pc EXCEPT ![t] = "poll_native"]
  /\ calls' = [calls EXCEPT ![t] = @ \cup {"poll_event"}]
  /\ UNCHANGED <<sessionVars, imutex, instance, op, unwinding, nulArg, jh, taken, ret,
                 loopVars, nativeVars>>

UnknownMessage(digits) == <<"Unknown event type value: ">> \o digits

\* variant: the message carries only the last digit of the discriminant
DecodeLastDigit(event) ==
  IF event.type = AppEventType_None THEN Ok("None", <<>>)
  ELSE IF event.type = AppEventType_TrayClicked THEN Ok("TrayClicked", <<>>)
  ELSE IF event.type = AppEventType_TrayDoubleClicked THEN Ok("TrayDoubleClicked", <<>>)
  ELSE IF event.type = AppEventType_MenuItemClicked
       THEN Ok("MenuItemClicked", ToStringLossy(CStr(event.menu_id_str[1])))
  ELSE Err("PollEventError", UnknownMessage(<<event.type % 10>>))

\* match event.type_ { .. }
Decode(event) ==
  IF event.type = AppEventType_None THEN Ok("None", <<>>)
  ELSE IF event.type = AppEventType_TrayClicked THEN Ok("TrayClicked", <<>>)
  ELSE IF event.type = AppEventType_TrayDoubleClicked THEN Ok("TrayDoubleClicked", <<>>)
  ELSE IF event.type = AppEventType_MenuItemClicked
       THEN Ok("MenuItemClicked", ToStringLossy(CStr(event.menu_id_str[1])))
  ELSE Err("PollEventError", UnknownMessage(FormatDec(event.type)))

\* variant: the payload is read through the pointer and never taken over
FromRawNever(event) == 0

\* CString::from_raw(event.menu_id_str): how many native strings the decoding takes
\* over.  c_str is dropped at the end of the match arm, which releases the string;
\* no arm calls bind::free_char_ptr.
FromRaw(event) == IF event.type = AppEventType_MenuItemClicked THEN 1 ELSE 0

\* variant: on the error path the guard is leaked and the mutex stays locked
PollNativeErrKeepsGuard(t) ==
  /\ At(t, "poll_native")
  /\ pendingEv' = NoEvent
  /\ payloads' = payloads - FromRaw(pendingEv)
  /\ UseHandle
  /\ hmutex' = IF Decode(pendingEv).tag = "Err" THEN hmutex ELSE None
  /\ Return(t, Decode(pendingEv), calls[t], pendingEv)
  /\ UNCHANGED <<sessionVars, imutex, instance, jh, taken, loopVars, quitPending,
                 configVars, cleanups>>

\* bind::poll_event returns the pending event and empties the slot; the event is
\* decoded; the guard is dropped when poll_event returns
PollNative(t) ==
  /\ At(t, "poll_native")
  /\ pendingEv' = NoEvent
  /\ payloads' = payloads - FromRaw(pendingEv)
  /\ UseHandle
  /\ hmutex' = None
  /\ Return(t, Decode(pendingEv), calls[t], pendingEv)
  /\ UNCHANGED <<sessionVars, imutex, instance, jh, taken, loopVars, quitPending,
                 configVars, cleanups>>

\* ------------------------------------------------------- background threads
\* the spawned closure calls run_qt_app(handle.as_ptr(), 0, argv)
LoopEnter(l) ==
  /\ ~crashed /\ lpc[l] = "spawned"
  /\ lpc' = [lpc EXCEPT ![l] = "running"]
  /\ UseHandle
  /\ UNCHANGED <<sessionVars, lockVars, instance, op, pc, unwinding, nulArg, jh, taken,
                 calls, ret, nspawned, joined, exitCode, quitPending, pendingEv, payloads,
                 configVars, cleanups>>

\* run_qt_app returns result (a non-zero result is written to stderr); the
\* closure ends
LoopReturn(l, result) ==
  /\ lpc' = [lpc EXCEPT ![l] = "exited"]
  /\ exitCode' = [exitCode EXCEPT ![l] = Some(result)]
  /\ UseHandle

\* the loop honours the quit request
LoopQuit(l) ==
  /\ ~crashed /\ lpc[l] = "running"
  /\ quitPending
  /\ quitPending' = FALSE
  /\ LoopReturn(l, 0)
  /\ UNCHANGED <<sessionVars, lockVars, instance, op, pc, unwinding, nulArg, jh, taken,
                 calls, ret, nspawned, joined, pendingEv, payloads, configVars, cleanups>>

\* the loop ends on its own
LoopSelfExit(l, result) ==
  /\ ~crashed /\ lpc[l] = "running"
  /\ LoopReturn(l, result)
  /\ UNCHANGED <<sessionVars, lockVars, instance, op, pc, unwinding, nulArg, jh, taken,
                 calls, ret, nspawned, joined, quitPending, pendingEv, payloads, configVars,
                 cleanups>>

\* native: the running loop of a live handle records an event in its one slot; a
\* menu click carries a freshly allocated copy of the entry's identifier, and the
\* string of an event that is replaced unread is released by the native side
NativeEvent(type, id) ==
  /\ ~crashed /\ Running # {}
  /\ cleanups = 0
  /\ IF type = AppEventType_MenuItemClicked
     THEN id \in {m.id : m \in nMenus}
     ELSE id = <<>>
  /\ pendingEv' = [type |-> type,
                   menu_id_str |-> IF type = AppEventType_MenuItemClicked
                                   THEN Some(Append(id, 0)) ELSE None]
  /\ pendingEv' # pendingEv
  /\ payloads' = payloads - Len(pendingEv.menu_id_str) + Len(pendingEv'.menu_id_str)
  /\ UNCHANGED <<sessionVars, lockVars, instance, op, pc, unwinding, nulArg, jh, taken,
                 calls, ret, loopVars, quitPending, configVars, cleanups, crashed>>

\* ------------------------------------------------------------ specifications
ExitCodes == {0, 1}
IconData == <<1, 0, 1>>
Valid == <<1>>               \* a NUL-free string
Accented == <<195, 169>>     \* a string of one two-byte character (U+00E9)
Main == "t1"                 \* the thread that constructs the session

\* the steps of the background threads that the scheduler owes them
LoopStep(l) == LoopEnter(l) \/ LoopQuit(l)

\* the steps of stop(), also as the first part of Drop::drop
StopStep(t) == StopLock(t) \/ StopQuit(t) \/ StopTake(t) \/ StopJoin(t)

\* Two caller threads, a session and its clone, all operations, NUL-free strings.
Next ==
  \/ \E o \in SmallStrings : NewCall(Main, o, Valid)
  \/ \E t \in Threads :
       \/ \E u \in Threads : CloneCall(t, u)
       \/ MenuCall(t, Valid, Valid) \/ MenuNative(t)
       \/ StartCall(t) \/ StartSpawn(t) \/ StartStore(t)
       \/ StopCall(t) \/ StopStep(t)
       \/ PollCall(t) \/ PollLock(t) \/ PollNative(t)
       \/ DropCall(t) \/ DropLock(t) \/ DropCleanup(t)
  \/ \E l \in Loops : LoopStep(l) \/ \E r \in ExitCodes : LoopSelfExit(l, r)

Spec == Init /\ [][Next]_vars

\* One caller thread: construction and configuration with every string up to
\* MaxLen, and the drop that a panic in menu() or icon() unwinds into.
NextCfg ==
  \/ \E o, a \in Strings : NewCall(Main, o, a)
  \/ \E x, i \in Strings : MenuCall(Main, x, i)
  \/ MenuNative(Main)
  \/ \E f \in Strings : IconCall(Main, IconData, f)
  \/ IconNative(Main)
  \/ StopLock(Main) \/ StopQuit(Main) \/ StopTake(Main)
  \/ DropLock(Main) \/ DropCleanup(Main)

SpecCfg == Init /\ [][NextCfg]_vars

\* One caller thread polling a started session whose native side records events
\* with every discriminant up to MaxDiscr.
NextPoll ==
  \/ NewCall(Main, Valid, Valid)
  \/ \E i \in {x \in Strings : ~HasNul(x)} \cup {Accented} : MenuCall(Main, Valid, i)
  \/ MenuNative(Main)
  \/ StartCall(Main) \/ StartSpawn(Main) \/ StartStore(Main)
  \/ PollCall(Main) \/ PollLock(Main) \/ PollNative(Main)
  \/ \E l \in Loops : LoopEnter(l)
  \/ \E d \in Discriminants, i \in {<<>>} \cup {m.id : m \in nMenus} : NativeEvent(d, i)

SpecPoll == Init /\ [][NextPoll]_vars

\* One caller thread starting, polling and stopping a session whose native side
\* records tray clicks and events of an unknown type, and whose loop may end on
\* its own.
UnknownType == AppEventType_MenuItemClicked + 1
NextRecover ==
  \/ NewCall(Main, Valid, Valid)
  \/ StartCall(Main) \/ StartSpawn(Main) \/ StartStore(Main)
  \/ StopCall(Main) \/ StopStep(Main)
  \/ PollCall(Main) \/ PollLock(Main) \/ PollNative(Main)
  \/ \E l \in Loops : LoopStep(l) \/ \E r \in ExitCodes : LoopSelfExit(l, r)
  \/ \E d \in {AppEventType_TrayClicked, UnknownType} : NativeEvent(d, <<>>)

SpecRecover == Init /\ [][NextRecover]_vars

\* One caller thread starting and stopping a session on a system that may refuse
\* to create a thread.
NextSpawn ==
  \/ NewCall(Main, Valid, Valid)
  \/ StartCall(Main) \/ StartSpawn(Main) \/ StartSpawnFails(Main) \/ StartStore(Main)
  \/ StopCall(Main) \/ StopStep(Main)
  \/ \E l \in Loops : LoopStep(l) \/ \E r \in ExitCodes : LoopSelfExit(l, r)

SpecSpawn == Init /\ [][NextSpawn]_vars

\* One caller thread starting and stopping the session.  The scheduler is fair to
\* every thread that can take a step; nothing obliges the caller to call, nor the
\* native loop to end on its own.
NextStartStop ==
  \/ NewCall(Main, Valid, Valid)
  \/ StartCall(Main) \/ StartSpawn(Main) \/ StartStore(Main)
  \/ StopCall(Main) \/ StopStep(Main)
  \/ \E l \in Loops : LoopStep(l) \/ \E r \in ExitCodes : LoopSelfExit(l, r)

FairStartStop ==
  /\ Init /\ [][NextStartStop]_vars
  /\ WF_vars(StartSpawn(Main) \/ StartStore(Main) \/ StopStep(Main))
  /\ \A l \in Loops : WF_vars(LoopStep(l))

\* ------------------------------------------------------------------ claims
\* a caller thread is inside a native call on the handle
InNative(t) ==
  pc[t] \in {"menu_native", "icon_native", "stop_quit", "poll_native", "drop_cleanup"}

\* the step with which a caller thread leaves its native call and drops the guard
ReleaseStep(t) ==
  MenuNative(t) \/ IconNative(t) \/ StopQuit(t) \/ PollNative(t) \/ DropCleanup(t)

\* C1: at most one background thread is inside run_qt_app on the handle at a time.
C1_SingleLoopOwner == Cardinality(Running) <= 1

\* C2: a stop() that follows the session's first start() eventually returns, with
\* the background thread joined and the join slot empty.
C2_StartThenStopReturns ==
  (op[Main] = "stop" /\ nspawned = 1)
    ~> (op[Main] = "none" /\ instance = None /\ joined[1] = 1)

\* C3: cleanup_qt_app is never called a second time on the handle, and it has been
\* called once when no session value is left.
C3_CleanupExactlyOnce ==
  /\ cleanups <= 1
  /\ (handle # "unset" /\ \A t \in Threads : ~owns[t]) => cleanups = 1

\* C4: while cleanup_qt_app is being called, no background thread is inside
\* run_qt_app.
C4_NoLoopAtCleanup ==
  \A t \in Threads : pc[t] = "drop_cleanup" => Running = {}

\* C5 (as claimed): every native call on the handle, run_qt_app included, is made
\* with the handle mutex held, and no two native calls overlap.
C5_AllNativeCallsUnderMutex ==
  /\ \A t \in Threads : InNative(t) => hmutex = Some(t)
  /\ Running # {} => hmutex # None
  /\ Cardinality({t \in Threads : InNative(t)}) + Cardinality(Running) <= 1

\* C5 (amended): the native calls of menu, icon, stop (quit request), poll_event and
\* drop (cleanup) are made by the thread that holds the handle mutex, the mutex is
\* held only for such a call, and no two of them overlap.
C5_CallerNativeCallsUnderMutex ==
  /\ \A t \in Threads : InNative(t) <=> hmutex = Some(t)
  /\ Cardinality({t \in Threads : InNative(t)}) <= 1

\* a poll holds the mutex inside bind::poll_event while a loop runs without it and
\* another thread waits for the mutex
C5_Witness ==
  \E t, u \in Threads :
    /\ pc[t] = "poll_native" /\ hmutex = Some(t)
    /\ pc[u] \in {"poll_lock", "stop_lock"}
    /\ Running # {}

\* C6: no background thread is joined twice: no two stop() calls hold the same
\* join handle, and while one stop() joins the slot is empty.
C6_JoinedAtMostOnce ==
  /\ \A l \in Loops : joined[l] <= 1
  /\ \A t, u \in Threads : (t # u /\ taken[t] # None) => taken[t] # taken[u]
  /\ \A t \in Threads : pc[t] = "stop_join" => (instance = None /\ imutex = Some(t))

\* one stop() has joined the only task and a second stop() is about to find the
\* slot empty
C6_Witness ==
  \E t \in Threads :
    /\ nspawned = 1 /\ joined[1] = 1
    /\ op[t] = "stop" /\ pc[t] = "stop_take" /\ instance = None

\* C7: a stop() that finds the join slot empty has made no native call.
C7_StopOnEmptySlotNoNativeCall ==
  \A t \in Threads :
    (op[t] = "stop" /\ pc[t] = "stop_take" /\ imutex = None /\ instance = None)
      => calls[t] = {}

\* C8: a poll_event() waiting for the handle mutex waits only for a thread inside
\* a native call that can return, never for a join or the join-slot lock; with
\* the mutex it completes.
C8_PollNeverBlocked ==
  \A t \in Threads :
    /\ At(t, "poll_lock") =>
         \/ hmutex = None
         \/ \E u \in Threads : hmutex = Some(u) /\ ENABLED ReleaseStep(u)
    /\ At(t, "poll_native") => ENABLED PollNative(t)

\* a poll_event() is at the handle lock while a stop() is blocked joining a
\* running loop
C8_Witness ==
  \E t, u \in Threads :
    /\ pc[t] = "poll_lock"
    /\ pc[u] = "stop_join" /\ lpc[taken[u][1]] = "running" /\ ~quitPending

\* the native entry points that create or configure the handle
ConfigEntryPoints ==
  {"create_qt_app", "set_organization_name", "set_app_id", "init_tray",
   "add_tray_menu_item", "set_app_icon_from_data"}

\* the native calls of a successful new, menu or icon
ConfigCallsOf(o) ==
  IF o = "new" THEN {"create_qt_app", "set_organization_name", "set_app_id", "init_tray"}
  ELSE IF o = "menu" THEN {"add_tray_menu_item"}
  ELSE {"set_app_icon_from_data"}

\* C9 (as claimed): new, menu and icon succeed on NUL-free strings, and on a string
\* with a NUL byte they fail having made no native call at all.
C9_NoNativeCallOnNul ==
  ret.op \in {"new", "menu", "icon"} =>
    IF ret.nul
    THEN ret.val.tag = "Panic" /\ ret.calls = {}
    ELSE ret.val.tag = "Ok" /\ ret.calls = ConfigCallsOf(ret.op)

\* C9 (amended): on NUL-free strings new, menu and icon succeed and make their
\* native calls; on a string with a NUL byte they panic with the Ffi(NulError)
\* failure before any native call that creates or configures the handle: new has
\* made no native call, and a failed menu or icon has made only the calls of the
\* drop of the session value it consumed (quit request, cleanup).  No string with
\* a NUL byte, and nothing at all before a successful new, reaches the native side.
C9_NulRejectedBeforeConfig ==
  /\ ret.op \in {"new", "menu", "icon"} =>
       IF ret.nul
       THEN /\ ret.val.tag = "Panic" /\ ret.val.what = "Ffi(NulError)"
            /\ ret.calls \cap ConfigEntryPoints = {}
            /\ ret.calls = IF ret.op = "new" THEN {}
                           ELSE {"request_quit_qt_app_safe", "cleanup_qt_app"}
       ELSE ret.val.tag = "Ok" /\ ret.calls = ConfigCallsOf(ret.op)
  /\ handle = "unset" => (nOrg = None /\ nApp = None /\ nMenus = {} /\ nIcon = None)
  /\ nOrg # None => ~HasNul(nOrg[1]) /\ ~HasNul(nApp[1])
  /\ \A m \in nMenus : ~HasNul(m.text) /\ ~HasNul(m.id)
  /\ nIcon # None => ~HasNul(nIcon[1].format)

\* a menu() with a NUL byte in an argument has panicked on a session that already
\* had a menu entry and an icon; unwinding has dropped the session
C9_Witness ==
  /\ ret.op = "menu" /\ ret.nul /\ ret.val.tag = "Panic"
  /\ ret.calls = {"request_quit_qt_app_safe", "cleanup_qt_app"}
  /\ nMenus # {} /\ nIcon # None /\ cleanups = 1 /\ ~owns[Main]

\* C10: a poll_event() whose native discriminant is none of the four known types
\* returns Err(PollEventError(message)), never a panic, and the message carries
\* exactly that discriminant: its decimal digits read back give the value.
C10_UnknownDiscriminantReported ==
  (ret.op = "poll_event" /\ ret.raw.type \notin KnownTypes) =>
    /\ ret.val.tag = "Err" /\ ret.val.what = "PollEventError"
    /\ Head(ret.val.data) = "Unknown event type value: "
    /\ ParseDec(Tail(ret.val.data)) = ret.raw.type

\* a poll has returned the error for a discriminant of two digits
C10_Witness ==
  /\ ret.op = "poll_event" /\ ret.raw.type = MaxDiscr /\ MaxDiscr >= 10
  /\ ret.val.tag = "Err"

\* C11: a poll_event() whose native discriminant is one of the four known types
\* returns Ok with the matching variant: None, TrayClicked, TrayDoubleClicked,
\* and for a menu click MenuItemClicked(s) where s is, byte for byte, the menu.id
\* that menu() was given for the entry whose identifier the native event carries.
C11_KnownDiscriminantsDecoded ==
  (ret.op = "poll_event" /\ ret.raw.type \in KnownTypes) =>
    /\ ret.val.tag = "Ok"
    /\ ret.raw.type = AppEventType_None => ret.val = Ok("None", <<>>)
    /\ ret.raw.type = AppEventType_TrayClicked => ret.val = Ok("TrayClicked", <<>>)
    /\ ret.raw.type = AppEventType_TrayDoubleClicked =>
         ret.val = Ok("TrayDoubleClicked", <<>>)
    /\ ret.raw.type = AppEventType_MenuItemClicked =>
         /\ ret.val.what = "MenuItemClicked"
         /\ \E id \in menuIds :
              /\ ret.raw.menu_id_str = Some(CStringNew(id).bytes)
              /\ ret.val.data = id

\* a poll has returned the click on an entry whose identifier is not ASCII
C11_Witness ==
  /\ ret.op = "poll_event" /\ ret.raw.type = AppEventType_MenuItemClicked
  /\ ret.val = Ok("MenuItemClicked", Accented)

\* C12: the native string of a menu click is taken over and released exactly once
\* by the poll_event() that returns the click: every string the native side has
\* allocated is either still with the pending event or released, never released
\* twice and never released for an event of another type; poll_event() makes no
\* native call but bind::poll_event, so it never asks the native side to free.
C12_PayloadReleasedExactlyOnce ==
  /\ payloads = Len(pendingEv.menu_id_str)
  /\ ret.op = "poll_event" => ret.calls = {"poll_event"}

\* a poll has returned a menu click and released its string while the next click,
\* with a string of its own, is pending
C12_Witness ==
  /\ ret.op = "poll_event" /\ ret.raw.type = AppEventType_MenuItemClicked
  /\ pendingEv.type = AppEventType_MenuItemClicked /\ payloads = 1

\* thread t's poll_event() returns an error in this step
PollReturnsErr(t) ==
  /\ pc[t] = "poll_native" /\ pc'[t] = "idle"
  /\ ret'.op = "poll_event" /\ ret'.val.tag = "Err"

\* C13: a poll_event() that returns an error leaves the state a poll returning
\* no-event would have left: handle, clones, join slot, background threads, quit
\* request, native configuration and heap are unchanged, the pending-event slot is
\* empty, the handle mutex is released and the join-slot mutex untouched; so every
\* later operation finds the state it would have found.  After the error a mutex
\* is held only by an operation that is inside its critical section.
C13_FailedPollLeavesSessionUsable ==
  /\ [][\A t \in Threads : PollReturnsErr(t) =>
          /\ UNCHANGED <<sessionVars, imutex, instance, unwinding, jh, taken, loopVars,
                         quitPending, payloads, configVars, cleanups, crashed>>
          /\ hmutex' = None /\ pendingEv' = NoEvent
          /\ op'[t] = "none" /\ calls'[t] = {}]_vars
  /\ [](ret.val.tag = "Err" =>
          /\ hmutex # None => \E t \in Threads : hmutex = Some(t) /\ InNative(t)
          /\ imutex # None => \E t \in Threads : imutex = Some(t) /\ pc[t] = "stop_join")

\* after a poll that returned an error, the session was started again and a
\* stop() is joining
C13_Witness ==
  /\ ret.op = "poll_event" /\ ret.val.tag = "Err"
  /\ nspawned = MaxSpawn /\ pc[Main] = "stop_join"

\* C14 (as claimed): a start() that cannot create the background thread hands its
\* caller an error value.
C14_SpawnFailureReturnedAsErr ==
  ret.op = "start" => ret.val.tag = "Err"

\* C14 (amended): a start() that cannot create the background thread panics (the
\* panic of std::thread::spawn, no error value: start() returns ()), with no
\* native call made, no lock held and the join slot, the background threads and
\* the handle untouched; a start() that returns normally has recorded the thread
\* it spawned in the join slot.
C14_SpawnFailurePanics ==
  /\ [][\A t \in Threads : (op[t] = "start" /\ op'[t] = "none") =>
          IF pc[t] = "start_store"
          THEN instance' # None /\ lpc[instance'[1]] # "unborn" /\ UNCHANGED ret
          ELSE /\ ret' = [op |-> "start", nul |-> FALSE, val |-> Panic("thread::spawn"),
                          calls |-> {}, raw |-> NoEvent]
               /\ UNCHANGED <<sessionVars, lockVars, instance, jh, loopVars,
                              nativeVars>>]_vars
  /\ [](ret.op = "start" => ret.val.tag = "Panic")

\* a start() has panicked on a session that was never started: nothing is spawned,
\* the slot is empty, the caller is back in control
C14_Witness ==
  /\ ret.op = "start" /\ ret.val.tag = "Panic"
  /\ nspawned = 0 /\ instance = None /\ Idle(Main) /\ owns[Main] /\ hmutex = None

\* C15: a start() never waits for a background thread to exit: while it waits for
\* the handle mutex the holder is inside a native call that can return, and when
\* it comes to store its join handle no stop() is holding the join-slot mutex
\* over a join of a thread that has not exited.
C15_StartNeverWaitsForJoin ==
  \A t \in Threads :
    /\ At(t, "start_lock") =>
         \/ hmutex = None
         \/ \E u \in Threads : hmutex = Some(u) /\ ENABLED ReleaseStep(u)
    /\ At(t, "start_store") =>
         ~\E u \in Threads :
            imutex = Some(u) /\ pc[u] = "stop_join" /\ lpc[taken[u][1]] # "exited"

\* C16: the exit of a native loop, with any exit code, changes nothing but the
\* background thread's own state (its exit code goes to stderr at most): no cell,
\* lock, caller position or returned value changes with it.  Afterwards the slot
\* still holds the task that start() stored last, until a stop() takes it; no
\* operation panics; a poll_event() in progress can go on and returns what the
\* native event decodes to; a stop() whose background threads have all exited
\* is never held up, and its join returns at once.
C16_LoopExitNeverFailsCaller ==
  /\ [][\A l \in Loops : (lpc[l] = "running" /\ lpc'[l] = "exited") =>
          /\ exitCode'[l] \in {Some(r) : r \in ExitCodes}
          /\ UNCHANGED <<sessionVars, lockVars, instance, op, pc, unwinding, jh, taken,
                         calls, ret, pendingEv, payloads, configVars, cleanups,
                         crashed>>]_vars
  /\ [](/\ ~crashed /\ ret.val.tag # "Panic"
        /\ ret.op = "poll_event" => ret.val = Decode(ret.raw)
        /\ (nspawned > 0 /\ joined[nspawned] = 0 /\ op[Main] = "none") =>
             instance = Some(nspawned)
        /\ op[Main] = "poll_event" => ENABLED (PollLock(Main) \/ PollNative(Main))
        /\ (op[Main] = "stop" /\ \A l \in 1..nspawned : lpc[l] = "exited") =>
             ENABLED StopStep(Main))

\* the loop has ended on its own with a non-zero exit code, a poll_event() has
\* returned since, and a stop() is about to join the finished task
C16_Witness ==
  /\ nspawned = 1 /\ lpc[1] = "exited" /\ exitCode[1] = Some(1) /\ ~quitPending
  /\ ret.op = "poll_event" /\ ret.val.tag = "Ok"
  /\ pc[Main] = "stop_join" /\ taken[Main] = Some(1)

\* C17: every background thread that has been spawned and not joined is held by
\* the join slot, by the start() that is about to store it, or by the stop() that
\* is joining it.
C17_NoOrphanThread ==
  \A l \in 1..nspawned :
    joined[l] = 0 =>
      \/ instance = Some(l)
      \/ \E t \in Threads : jh[t] = Some(l) \/ taken[t] = Some(l)

\* C18: once cleanup_qt_app has been called on the handle, no caller thread is
\* inside a native call on it: no quit request, poll or further cleanup of a
\* remaining clone.
C18_NoNativeCallAfterCleanup ==
  cleanups > 0 => \A t \in Threads : ~InNative(t)

\* thread t is about to lock the handle mutex / the join-slot mutex
WaitsHandle(t) == pc[t] \in {"start_lock", "stop_lock", "poll_lock", "drop_lock"}
WaitsInstance(t) == pc[t] \in {"start_store", "stop_take"}

\* C19: no thread holds the handle mutex and the join-slot mutex together, and no
\* thread asks for one of them while it holds the other; so no two threads can
\* wait for each other's lock.
C19_NeverBothMutexes ==
  \A t \in Threads :
    /\ ~(hmutex = Some(t) /\ imutex = Some(t))
    /\ hmutex = Some(t) => ~WaitsInstance(t)
    /\ imutex = Some(t) => ~WaitsHandle(t)

\* both mutexes are held, by different threads: one joins under the join-slot
\* mutex while the other is inside the cleanup call under the handle mutex
C19_Witness ==
  \E t, u \in Threads :
    /\ imutex = Some(t) /\ pc[t] = "stop_join"
    /\ hmutex = Some(u) /\ pc[u] = "drop_cleanup"

====
